---- MODULE Spec2Model ----
(***************************************************************************)
(* Seam carving engine of red-mountain-resize (src/carve.rs).              *)
(*                                                                         *)
(* A Carver owns a grid of PixelEnergyPoint cells and the list of removed  *)
(* seam coordinates.  resize(distance, orientation, mode) shrinks or grows *)
(* the grid along one axis, one seam at a time.                            *)
(*                                                                         *)
(* Two specifications are given:                                           *)
(*   Spec      a Carver built from any small bitmap, then a bounded number *)
(*             of resize calls, each call one atomic step;                 *)
(*   IterSpec  one shrink_distance call on a Carver built from any small   *)
(*             bitmap, run statement by statement (calculate_energy,       *)
(*             get_path_start, find_path, remove_path).                    *)
(* Both use the same operators for the bodies of the functions.            *)
(***************************************************************************)
EXTENDS Integers, Sequences, FiniteSets

VARIABLES
    grid,            \* Carver.grid
    removed_points,  \* Carver.removed_points
    status,          \* "ok", or how the thread panicked
    image,           \* the bitmap returned by the last resize that returned
    call,            \* arguments of the last resize call and the size on entry
    points,          \* grow_distance: the list get_points_removed_by_shrink returned
    calls,           \* number of resize calls made
    in_contract,     \* every call so far had distance < the size along its axis
    pc,              \* IterSpec: position inside shrink_distance
    remaining,       \* IterSpec: iterations of `for _ in 0..distance` still to run
    distance,        \* IterSpec: the argument of shrink_distance
    start,           \* IterSpec: (start_x, start_y)
    path             \* IterSpec: the seam find_path returned

vars == <<grid, removed_points, status, image, call, points, calls, in_contract,
          pc, remaining, distance, start, path>>

----------------------------------------------------------------------------
(* Bounds of the model *)

\* Spec: pixels of the bitmap a Carver is built from, and of a grown grid
MaxCells == 5

\* Spec: resize calls on one Carver
MaxCalls == 2

\* the distances tried
MaxDistance == 2

\* IterSpec: pixels of the bitmap
MaxIterCells == 8

----------------------------------------------------------------------------
(* Pixels: Rgba<u8>, four channels *)

Channels == 4

Black == <<0, 0, 0, 255>>

White == <<255, 255, 255, 255>>

Palette == {Black, White}

\* The element of a one-element set.  Value({e(v) : v \in {x}}) is e(x) with x
\* evaluated once, whatever the number of uses of v in e.
Value(S) == CHOOSE v \in S : TRUE

\* PixelEnergyPoint
PixelEnergyPoint(p, e, c) == [pixel |-> p, energy |-> e, path_cost |-> c]

\* From<Rgba<u8>> for PixelEnergyPoint: energy and path_cost start at zero
FromPixel(p) == PixelEnergyPoint(p, 0, 0)

\* PixelEnergyPoint::square_gradient
SquareGradient(a, b) ==
    LET d(i) == a.pixel[i] - b.pixel[i]
    IN  d(1) * d(1) + d(2) * d(2) + d(3) * d(3) + d(4) * d(4)

\* average_pixels: each channel widened to u16, summed, halved, narrowed to u8
AveragePixels(pixel1, pixel2) ==
    [i \in 1..Channels |-> (((pixel1[i] + pixel2[i]) % 65536) \div 2) % 256]

----------------------------------------------------------------------------
(* Grid<T>: width, height and the cells; rows[y + 1][x + 1] is cell (x, y) *)

Grid(w, h, rows) == [width |-> w, height |-> h, rows |-> rows]

InBounds(g, x, y) == x >= 0 /\ y >= 0 /\ x < g.width /\ y < g.height

\* Grid::get, defined for x < width, y < height
Get(g, x, y) == g.rows[y + 1][x + 1]

\* *Grid::get_mut(x, y) = cell
SetCell(g, x, y, cell) == [g EXCEPT !.rows[y + 1][x + 1] = cell]

\* Grid::get_row
GetRow(g, y) == g.rows[y + 1]

\* Grid::get_adjacent: (left, right, up, down), the cell itself at a border
GetAdjacent(g, x, y) ==
    <<Get(g, IF x = 0 THEN x ELSE x - 1, y),
      Get(g, IF x = g.width - 1 THEN x ELSE x + 1, y),
      Get(g, x, IF y = 0 THEN y ELSE y - 1),
      Get(g, x, IF y = g.height - 1 THEN y ELSE y + 1)>>

\* Grid::get_parents: the cells of row y - 1 in columns x - 1, x, x + 1, left to right
GetParents(g, x, y) ==
    IF y = 0 THEN <<>>
    ELSE LET cand(px) == IF px >= 0 /\ px < g.width
                         THEN <<<<px, y - 1, Get(g, px, y - 1)>>>> ELSE <<>>
         IN  cand(x - 1) \o cand(x) \o cand(x + 1)

\* Grid::rotate: transpose, width and height swapped
Rotate(g) ==
    Grid(g.height, g.width,
         [y \in 1..g.width |-> [x \in 1..g.height |-> g.rows[x][y]]])

\* Grid::add_last_column
AddLastColumn(g) ==
    Grid(g.width + 1, g.height,
         [y \in 1..g.height |-> Append(g.rows[y], FromPixel(<<0, 0, 0, 0>>))])

\* Grid::remove_last_column
RemoveLastColumn(g) ==
    Grid(g.width - 1, g.height,
         [y \in 1..g.height |-> SubSeq(g.rows[y], 1, g.width - 1)])

\* Grid::shift_row_left_from_point: cells right of column x move one to the left
ShiftRowLeftFromPoint(g, x, y) ==
    [g EXCEPT !.rows[y + 1] =
        [i \in 1..g.width |-> IF i >= x + 1 /\ i < g.width THEN @[i + 1] ELSE @[i]]]

\* Grid::shift_row_right_from_point: cells at or right of column x move one to the right
ShiftRowRightFromPoint(g, x, y) ==
    [g EXCEPT !.rows[y + 1] =
        [i \in 1..g.width |-> IF i > x + 1 THEN @[i - 1] ELSE @[i]]]

\* Grid::coord_iter as rebuild_image uses it: the pixel of every cell
Pixels(g) == [y \in 1..g.height |-> [x \in 1..g.width |-> g.rows[y][x].pixel]]

----------------------------------------------------------------------------
(* Carver *)

Carver(g, rp, st) == [grid |-> g, removed_points |-> rp, status |-> st]

\* Iterator::min_by_key over the keys: index of the first minimal key
RECURSIVE MinByKeyFrom(_, _, _)
MinByKeyFrom(keys, i, best) ==
    IF i > Len(keys) THEN best
    ELSE Value({MinByKeyFrom(keys, i + 1, b) :
                b \in {IF keys[i] < keys[best] THEN i ELSE best}})

RECURSIVE MinByKeyLastFrom(_, _, _)
MinByKeyLastFrom(keys, i, best) ==
    IF i > Len(keys) THEN best
    ELSE Value({MinByKeyLastFrom(keys, i + 1, b) :
                b \in {IF keys[i] <= keys[best] THEN i ELSE best}})

\* the last minimal key instead of the first
MinByKeyLast(keys) == Value({MinByKeyLastFrom(k, 2, 1) : k \in {keys}})

MinByKey(keys) == Value({MinByKeyFrom(k, 2, 1) : k \in {keys}})

\* calculate_pixel_energy
CalculatePixelEnergy(g, x, y) ==
    LET adj == GetAdjacent(g, x, y)
        horizontal_square_gradient == SquareGradient(adj[1], adj[2])
        vertical_square_gradient == SquareGradient(adj[3], adj[4])
    IN  SetCell(g, x, y,
                [Get(g, x, y) EXCEPT
                    !.energy = horizontal_square_gradient + vertical_square_gradient])

\* only the parent straight above is looked at
GetMinParentPathCostAbove(g, x, y) ==
    IF y = 0 THEN -1 ELSE Get(g, x, y - 1).path_cost

\* get_min_parent_path_cost: -1 stands for None
GetMinParentPathCost(g, x, y) ==
    LET parents == GetParents(g, x, y)
        costs == [i \in 1..Len(parents) |-> parents[i][3].path_cost]
    IN  IF Len(parents) = 0 THEN -1 ELSE costs[MinByKey(costs)]

\* calculate_path_cost
CalculatePathCost(g, x, y) ==
    LET m == GetMinParentPathCost(g, x, y)
        min_parent_path_cost == IF m = -1 THEN 0 ELSE m
        energy == Get(g, x, y).energy
    IN  SetCell(g, x, y,
                [Get(g, x, y) EXCEPT !.path_cost = min_parent_path_cost + energy])

\* calculate_energy: for y in 0..height, for x in 0..width; k = y * width + x
RECURSIVE CalculateEnergyFrom(_, _)
CalculateEnergyFrom(g, k) ==
    IF k >= g.width * g.height THEN g
    ELSE Value({CalculateEnergyFrom(n, k + 1) :
                n \in {Value({CalculatePathCost(e, k % g.width, k \div g.width) :
                              e \in {CalculatePixelEnergy(g, k % g.width,
                                                          k \div g.width)}})}})

CalculateEnergy(g) == CalculateEnergyFrom(g, 0)

\* get_path_start panics: height() - 1 underflows, or the bottom row is empty
GetPathStartPanics(g) == g.height = 0 \/ g.width = 0

\* get_path_start
GetPathStart(g) ==
    LET y == g.height - 1
        row == GetRow(g, y)
        keys == [i \in 1..Len(row) |-> row[i].path_cost]
    IN  <<MinByKey(keys) - 1, y>>

\* get_parent_with_min_path_cost: <<>> stands for None
GetParentWithMinPathCost(g, x, y) ==
    LET parents == GetParents(g, x, y)
        keys == [i \in 1..Len(parents) |-> parents[i][3].path_cost]
    IN  IF Len(parents) = 0 THEN <<>>
        ELSE LET p == parents[MinByKey(keys)] IN <<p[1], p[2]>>

RECURSIVE FindPathLoop(_, _)
FindPathLoop(g, p) ==
    Value({IF parent = <<>> THEN p
           ELSE Value({FindPathLoop(g, q) : q \in {Append(p, parent)}}) :
           parent \in {GetParentWithMinPathCost(g, p[Len(p)][1], p[Len(p)][2])}})

\* the start point is left out of the path
FindPathNoStart(g, start_x, start_y) ==
    Tail(FindPathLoop(g, <<<<start_x, start_y>>>>))

\* find_path
FindPath(g, start_x, start_y) == FindPathLoop(g, <<<<start_x, start_y>>>>)

\* remove_path: the loop over the points, from the i-th on
RECURSIVE RemovePoints(_, _, _)
RemovePoints(c, pts, i) ==
    IF i > Len(pts) \/ c.status # "ok" THEN c
    ELSE LET x == pts[i][1]
             y == pts[i][2]
             pushed == Append(c.removed_points, <<x, y>>)
         IN  IF ~InBounds(c.grid, x, y)
             THEN Carver(c.grid, pushed, "out_of_bounds")
             ELSE Value({RemovePoints(n, pts, i + 1) :
                         n \in {Carver(ShiftRowLeftFromPoint(c.grid, x, y),
                                       pushed, "ok")}})

\* removed_points is overwritten by the path instead of extended
RemovePathOverwrite(c, pts) ==
    Value({IF r.status # "ok" THEN r
           ELSE Carver(RemoveLastColumn(r.grid), r.removed_points, "ok") :
           r \in {RemovePoints(Carver(c.grid, <<>>, c.status), pts, 1)}})

\* every row loses its first cell instead of the seam's cell
RemovePathFirstColumn(c, pts) ==
    Value({IF r.status # "ok" THEN r
           ELSE Carver(RemoveLastColumn(r.grid), c.removed_points \o pts, "ok") :
           r \in {RemovePoints(c, [i \in 1..Len(pts) |-> <<0, pts[i][2]>>], 1)}})

\* remove_path
RemovePath(c, pts) ==
    Value({IF r.status # "ok" THEN r
           ELSE Carver(RemoveLastColumn(r.grid), r.removed_points, "ok") :
           r \in {RemovePoints(c, pts, 1)}})

\* one iteration of the loop of shrink_distance
ShrinkOnce(c) ==
    Value({IF GetPathStartPanics(g)
           THEN Carver(g, c.removed_points,
                       IF g.height = 0 THEN "out_of_bounds" ELSE "bottom_row_empty")
           ELSE Value({Value({RemovePath(Carver(g, c.removed_points, "ok"), p) :
                              p \in {FindPath(g, s[1], s[2])}}) :
                       s \in {GetPathStart(g)}}) :
           g \in {CalculateEnergy(c.grid)}})

RECURSIVE ShrinkLoop(_, _)
ShrinkLoop(c, n) ==
    IF n = 0 \/ c.status # "ok" THEN c
    ELSE Value({ShrinkLoop(s, n - 1) : s \in {ShrinkOnce(c)}})

\* the loop runs once more than asked
ShrinkDistanceOneMore(c, d) == Value({ShrinkLoop(s, d + 1) : s \in {c}})

\* shrink_distance
ShrinkDistance(c, d) == Value({ShrinkLoop(s, d) : s \in {c}})

\* sort_by(|a, b| b.0.cmp(&a.0)) is stable: p goes behind every point with x >= p.x
RECURSIVE InsertByXDescending(_, _)
InsertByXDescending(sorted, p) ==
    IF sorted = <<>> THEN <<p>>
    ELSE IF Head(sorted)[1] >= p[1]
         THEN Value({<<Head(sorted)>> \o InsertByXDescending(t, p) :
                     t \in {Tail(sorted)}})
         ELSE <<p>> \o sorted

RECURSIVE SortByXDescendingFrom(_, _, _)
SortByXDescendingFrom(pts, i, sorted) ==
    IF i > Len(pts) THEN sorted
    ELSE Value({SortByXDescendingFrom(pts, i + 1, s) :
                s \in {InsertByXDescending(sorted, pts[i])}})

SortByXDescending(pts) == Value({SortByXDescendingFrom(p, 1, <<>>) : p \in {pts}})

\* get_points_removed_by_shrink: the clone carries removed_points along
GetPointsRemovedByShrink(c, d) ==
    Value({[status |-> shrinker.status,
            points |-> SortByXDescending(shrinker.removed_points)] :
           shrinker \in {ShrinkDistance(c, d)}})

RECURSIVE AddLastColumns(_, _)
AddLastColumns(g, n) ==
    IF n = 0 THEN g
    ELSE Value({AddLastColumns(a, n - 1) : a \in {AddLastColumn(g)}})

\* add_point
AddPoint(g, x, y, pixel) ==
    SetCell(ShiftRowRightFromPoint(g, x, y), x + 1, y, FromPixel(pixel))

\* average_pixel_from_neighbors
AveragePixelFromNeighbors(g, x, y, left) ==
    AveragePixels(left, Get(g, x + 1, y).pixel)

\* grow_distance: the loop over the points, from the i-th on
RECURSIVE InsertPoints(_, _, _)
InsertPoints(c, pts, i) ==
    IF i > Len(pts) \/ c.status # "ok" THEN c
    ELSE LET x == pts[i][1]
             y == pts[i][2]
         IN  IF ~InBounds(c.grid, x, y) \/ ~InBounds(c.grid, x + 1, y)
             THEN Carver(c.grid, c.removed_points, "out_of_bounds")
             ELSE LET left == Get(c.grid, x, y).pixel
                      pixel == AveragePixelFromNeighbors(c.grid, x, y, left)
                  IN  Value({InsertPoints(n, pts, i + 1) :
                             n \in {Carver(AddPoint(c.grid, x, y, pixel),
                                           c.removed_points, "ok")}})

\* grow_distance
GrowDistance(c, d) ==
    Value({IF r.status # "ok" THEN Carver(c.grid, c.removed_points, r.status)
           ELSE Value({InsertPoints(n, r.points, 1) :
                       n \in {Carver(AddLastColumns(c.grid, d),
                                     c.removed_points, "ok")}}) :
           r \in {GetPointsRemovedByShrink(c, d)}})

\* resize_distance
ResizeDistance(c, d, mode) ==
    IF mode = "Grow" THEN GrowDistance(c, d) ELSE ShrinkDistance(c, d)

\* resize, up to rebuild_image
ResizeGrid(c, d, orientation, mode) ==
    Value({IF orientation = "Horizontal" \/ r.status # "ok" THEN r
           ELSE Carver(Rotate(r.grid), r.removed_points, "ok") :
           r \in {Value({ResizeDistance(n, d, mode) :
                         n \in {IF orientation = "Horizontal" THEN c
                                ELSE Carver(Rotate(c.grid), c.removed_points,
                                            c.status)}})}})

\* rebuild_image
RebuildImage(g) == [width |-> g.width, height |-> g.height, pixels |-> Pixels(g)]

\* the grid resize_distance works on
ProcessingGrid(g, orientation) == IF orientation = "Horizontal" THEN g ELSE Rotate(g)

----------------------------------------------------------------------------
(* Carver::new(image): any bitmap of at most MaxCells pixels from the palette *)

Bitmaps(w, h) == [(1..w) \X (1..h) -> Palette]

GridOf(w, h, bitmap) ==
    Grid(w, h, [y \in 1..h |-> [x \in 1..w |-> FromPixel(bitmap[<<x, y>>])]])

InitGrids(cells) ==
    UNION {{GridOf(s[1], s[2], b) : b \in Bitmaps(s[1], s[2])} :
           s \in {t \in (1..cells) \X (1..cells) : t[1] * t[2] <= cells}}

NoImage == [width |-> 0, height |-> 0, pixels |-> <<>>]

NoCall == [distance |-> 0, orientation |-> "None", mode |-> "None",
           width |-> 0, height |-> 0]

Orientations == {"Horizontal", "Vertical"}

----------------------------------------------------------------------------
(* Spec: resize calls on one Carver *)

Init ==
    /\ grid \in InitGrids(MaxCells)
    /\ removed_points = <<>>
    /\ status = "ok"
    /\ image = NoImage
    /\ call = NoCall
    /\ points = <<>>
    /\ calls = 0
    /\ in_contract = TRUE
    /\ pc = "idle"
    /\ remaining = 0
    /\ distance = 0
    /\ start = <<>>
    /\ path = <<>>

\* Carver::resize(d, orientation, mode)
Resize(d, orientation, mode) ==
    /\ pc = "idle"
    /\ status = "ok"
    /\ calls < MaxCalls
    /\ mode = "Grow" =>
           LET p == ProcessingGrid(grid, orientation)
           IN  (p.width + d) * p.height <= MaxCells
    /\ \E r \in {ResizeGrid(Carver(grid, removed_points, "ok"), d, orientation, mode)} :
           /\ grid' = r.grid
           /\ removed_points' = r.removed_points
           /\ status' = r.status
           /\ image' = IF r.status = "ok" THEN RebuildImage(r.grid) ELSE image
    /\ points' = IF mode = "Grow"
                 THEN GetPointsRemovedByShrink(
                          Carver(ProcessingGrid(grid, orientation),
                                 removed_points, "ok"), d).points
                 ELSE points
    /\ call' = [distance |-> d, orientation |-> orientation, mode |-> mode,
                width |-> grid.width, height |-> grid.height]
    /\ calls' = calls + 1
    /\ in_contract' = (in_contract
                       /\ d < ProcessingGrid(grid, orientation).width)
    /\ UNCHANGED <<pc, remaining, distance, start, path>>

ResizeShrink == \E d \in 0..MaxDistance, o \in Orientations : Resize(d, o, "Shrink")

ResizeGrow == \E d \in 0..MaxDistance, o \in Orientations : Resize(d, o, "Grow")

Next == ResizeShrink \/ ResizeGrow

Spec == Init /\ [][Next]_vars

----------------------------------------------------------------------------
(* IterSpec: shrink_distance(distance) on a new Carver, statement by statement *)

IterInit ==
    /\ grid \in InitGrids(MaxIterCells)
    /\ removed_points = <<>>
    /\ status = "ok"
    /\ image = NoImage
    /\ call = NoCall
    /\ points = <<>>
    /\ calls = 0
    /\ in_contract = TRUE
    /\ pc = "loop"
    /\ distance \in 0..MaxDistance
    /\ remaining = distance
    /\ start = <<>>
    /\ path = <<>>

\* for _ in 0..distance
LoopHead ==
    /\ pc = "loop"
    /\ IF remaining = 0
       THEN pc' = "done" /\ UNCHANGED remaining
       ELSE pc' = "calculate_energy" /\ remaining' = remaining - 1
    /\ UNCHANGED <<grid, removed_points, status, image, call, points, calls, in_contract,
                   distance, start, path>>

\* self.calculate_energy()
CalculateEnergyStep ==
    /\ pc = "calculate_energy"
    /\ grid' = CalculateEnergy(grid)
    /\ pc' = "get_path_start"
    /\ UNCHANGED <<removed_points, status, image, call, points, calls, in_contract,
                   remaining, distance, start, path>>

\* let (start_x, start_y) = self.get_path_start()
GetPathStartStep ==
    /\ pc = "get_path_start"
    /\ IF GetPathStartPanics(grid)
       THEN /\ status' = IF grid.height = 0 THEN "out_of_bounds" ELSE "bottom_row_empty"
            /\ pc' = "panicked"
            /\ UNCHANGED start
       ELSE /\ start' = GetPathStart(grid)
            /\ pc' = "find_path"
            /\ UNCHANGED status
    /\ UNCHANGED <<grid, removed_points, image, call, points, calls, in_contract,
                   remaining, distance, path>>

\* let path = self.find_path(start_x, start_y)
FindPathStep ==
    /\ pc = "find_path"
    /\ path' = FindPath(grid, start[1], start[2])
    /\ pc' = "remove_path"
    /\ UNCHANGED <<grid, removed_points, status, image, call, points, calls, in_contract,
                   remaining, distance, start>>

\* self.remove_path(path)
RemovePathStep ==
    /\ pc = "remove_path"
    /\ \E r \in {RemovePath(Carver(grid, removed_points, "ok"), path)} :
           /\ grid' = r.grid
           /\ removed_points' = r.removed_points
           /\ status' = r.status
           /\ pc' = IF r.status = "ok" THEN "loop" ELSE "panicked"
    /\ UNCHANGED <<image, call, points, calls, in_contract, remaining, distance, start, path>>

IterNext ==
    \/ LoopHead
    \/ CalculateEnergyStep
    \/ GetPathStartStep
    \/ FindPathStep
    \/ RemovePathStep

IterSpec == IterInit /\ [][IterNext]_vars

----------------------------------------------------------------------------
(* Properties *)

\* the size along the axis of a call, and across it, on entry
AxisSize(c) == IF c.orientation = "Horizontal" THEN c.width ELSE c.height

OrthogonalSize(c) == IF c.orientation = "Horizontal" THEN c.height ELSE c.width

\* a call on a valid grid with distance < the size along the axis
CallInContract(c) == c.width >= 1 /\ c.height >= 1 /\ c.distance < AxisSize(c)

IsPrefix(s, t) == Len(s) <= Len(t) /\ SubSeq(t, 1, Len(s)) = s

WellFormed(g) ==
    /\ Len(g.rows) = g.height
    /\ \A y \in 1..g.height : Len(g.rows[y]) = g.width

Abs(n) == IF n < 0 THEN -n ELSE n

\* C1: a Shrink by d < the size along the axis returns, with that size reduced
\* by exactly d and the other size unchanged: Horizontal (W-d) x H, Vertical
\* W x (H-d), the grid in its original orientation.
C1_ShrinkReducesAxisByDistance ==
    (call.mode = "Shrink" /\ CallInContract(call)) =>
        /\ status = "ok"
        /\ WellFormed(grid)
        /\ grid.width = IF call.orientation = "Horizontal"
                        THEN call.width - call.distance ELSE call.width
        /\ grid.height = IF call.orientation = "Vertical"
                         THEN call.height - call.distance ELSE call.height
        /\ image.width = grid.width
        /\ image.height = grid.height

C1_Witness ==
    /\ call.mode = "Shrink"
    /\ call.orientation = "Vertical"
    /\ call.distance = 2
    /\ call.height = 3
    /\ call.width = 1
    /\ status = "ok"
    /\ calls = 2

\* C2: the seam find_path returns from get_path_start has exactly height points,
\* one for each row from height-1 down to 0 in that order, every x in [0, width),
\* and the x of consecutive points differ by at most 1.
C2_SeamIsMonotoneConnected ==
    pc = "remove_path" =>
        /\ Len(path) = grid.height
        /\ \A i \in 1..Len(path) :
              /\ path[i][2] = grid.height - i
              /\ path[i][1] >= 0
              /\ path[i][1] < grid.width
        /\ \A i \in 1..(Len(path) - 1) : Abs(path[i + 1][1] - path[i][1]) <= 1

C2_Witness ==
    /\ pc = "remove_path"
    /\ grid.height >= 3
    /\ grid.width >= 2
    /\ \E i \in 1..(Len(path) - 1) : path[i + 1][1] # path[i][1]

\* C3: removed_points is append-only (its value before a call is a prefix of
\* its value after), and a Shrink of distance d that returns lengthens it by
\* exactly d x (processing height), whatever calls came before.
C3_RemovedPointsAppendOnly ==
    [][/\ IsPrefix(removed_points, removed_points')
       /\ (calls' = calls + 1 /\ call'.mode = "Shrink" /\ status' = "ok") =>
              Len(removed_points') =
                  Len(removed_points) + call'.distance * OrthogonalSize(call')]_vars

C3_Witness ==
    /\ calls = 2
    /\ status = "ok"
    /\ call.mode = "Shrink"
    /\ call.distance >= 1
    /\ Len(removed_points) > call.distance * OrthogonalSize(call)

\* C4: round trip of the size: Grow by d then Shrink by d, and Shrink by d
\* then Grow by d, same orientation, d < the size along the axis, both return
\* and leave width and height as they were before the two calls.
C4_SizeRoundTrip ==
    [][(/\ calls' = calls + 1
        /\ in_contract'
        /\ status = "ok"
        /\ call.mode \in {"Grow", "Shrink"}
        /\ call'.mode \in {"Grow", "Shrink"}
        /\ call'.mode # call.mode
        /\ call'.orientation = call.orientation
        /\ call'.distance = call.distance) =>
            /\ status' = "ok"
            /\ grid'.width = call.width
            /\ grid'.height = call.height]_vars

\* C5: a Shrink by a distance >= the size along the axis does not return; in
\* particular a 1x1 image shrunk by 1 aborts; shrunk by 0 it returns the pixel.
C5_ShrinkByWholeSizeAborts ==
    [][(calls' = calls + 1 /\ call'.mode = "Shrink"
        /\ call'.width >= 1 /\ call'.height >= 1) =>
            /\ call'.distance >= AxisSize(call') => status' # "ok"
            /\ (call'.width = 1 /\ call'.height = 1 /\ call'.distance = 0) =>
                   (status' = "ok" /\ image' = RebuildImage(grid))]_vars

\* columns of row y with minimal path_cost
MinimalColumns(g, y, columns) ==
    {x \in columns : \A x2 \in columns : Get(g, x, y).path_cost <= Get(g, x2, y).path_cost}

SmallestOf(S) == CHOOSE x \in S : \A x2 \in S : x <= x2

Uniform(g) ==
    \A x1 \in 0..(g.width - 1), y1 \in 0..(g.height - 1),
       x2 \in 0..(g.width - 1), y2 \in 0..(g.height - 1) :
        Get(g, x1, y1).pixel = Get(g, x2, y2).pixel

\* C6: get_path_start returns the smallest column with minimal path_cost in the
\* bottom row, every backtracking step the smallest-column parent with minimal
\* path_cost; on a uniform image the seam is (0, height-1), ..., (0, 0).
C6_LeftmostTieBreak ==
    /\ pc = "find_path" =>
          start = <<SmallestOf(MinimalColumns(grid, grid.height - 1,
                                              0..(grid.width - 1))),
                    grid.height - 1>>
    /\ pc = "remove_path" =>
          /\ path[1] = start
          /\ \A i \in 1..(Len(path) - 1) :
                LET x == path[i][1]
                    y == path[i][2]
                    columns == {px \in {x - 1, x, x + 1} : px >= 0 /\ px < grid.width}
                IN  path[i + 1] = <<SmallestOf(MinimalColumns(grid, y - 1, columns)), y - 1>>
          /\ Uniform(grid) =>
                path = [i \in 1..grid.height |-> <<0, grid.height - i>>]

C6_Witness ==
    /\ pc = "remove_path"
    /\ Uniform(grid)
    /\ grid.width >= 2
    /\ grid.height >= 2
    /\ remaining = distance - 1
    /\ path = [i \in 1..grid.height |-> <<0, grid.height - i>>]

\* the 8-connected monotone paths from the top row down to (x, y): p[i] is the
\* column in row i - 1
PathsTo(g, x, y) ==
    {p \in [1..(y + 1) -> 0..(g.width - 1)] :
        /\ p[y + 1] = x
        /\ \A i \in 1..y : Abs(p[i + 1] - p[i]) <= 1}

RECURSIVE EnergyAlong(_, _, _)
EnergyAlong(g, p, n) ==
    IF n = 0 THEN 0 ELSE Get(g, p[n], n - 1).energy + EnergyAlong(g, p, n - 1)

RECURSIVE SeamEnergy(_, _, _)
SeamEnergy(g, seam, n) ==
    IF n = 0 THEN 0
    ELSE Get(g, seam[n][1], seam[n][2]).energy + SeamEnergy(g, seam, n - 1)

\* C7: after calculate_energy the path_cost of every cell is the least energy
\* sum over the monotone paths from the top row to it, and the seam found has
\* the least energy sum of all top-to-bottom seams, the least bottom path_cost.
C7_PathCostIsMinimal ==
    /\ pc \in {"get_path_start", "find_path", "remove_path"} =>
          \A x \in 0..(grid.width - 1), y \in 0..(grid.height - 1) :
              /\ \E p \in PathsTo(grid, x, y) :
                     EnergyAlong(grid, p, y + 1) = Get(grid, x, y).path_cost
              /\ \A p \in PathsTo(grid, x, y) :
                     EnergyAlong(grid, p, y + 1) >= Get(grid, x, y).path_cost
    /\ pc = "remove_path" =>
          /\ \A x \in 0..(grid.width - 1) :
                 SeamEnergy(grid, path, Len(path))
                     <= Get(grid, x, grid.height - 1).path_cost
          /\ \A x \in 0..(grid.width - 1) :
                 \A p \in PathsTo(grid, x, grid.height - 1) :
                     SeamEnergy(grid, path, Len(path))
                         <= EnergyAlong(grid, p, grid.height)
          /\ SeamEnergy(grid, path, Len(path))
                 = Get(grid, start[1], start[2]).path_cost

C7_Witness ==
    /\ pc = "remove_path"
    /\ grid.height >= 2
    /\ grid.width >= 3
    /\ \E i \in 1..(Len(path) - 1) : path[i + 1][1] # path[i][1]
    /\ SeamEnergy(grid, path, Len(path)) > 0
    /\ \E x \in 0..(grid.width - 1) :
           Get(grid, x, grid.height - 1).path_cost > SeamEnergy(grid, path, Len(path))

\* C8: while every call has distance < the size along its axis, every grid
\* access of the engine is inside the grid.
C8_AccessesInBounds == in_contract => status # "out_of_bounds"

\* the points of s in row y
InRow(s, y) == {i \in 1..Len(s) : s[i][2] = y}

\* C9: the list grow_distance inserts at is exactly what the simulated shrink
\* of the snapshot removes: d x height coordinates, d in each row, in order of
\* non-increasing x; the live grid and removed_points are not touched by it.
C9_GrowInsertsAtSimulatedSeams ==
    [][(calls' = calls + 1 /\ in_contract' /\ call'.mode = "Grow") =>
           LET live == ProcessingGrid(grid, call'.orientation)
               sim == ShrinkDistance(Carver(live, <<>>, "ok"), call'.distance)
           IN  /\ points' = SortByXDescending(sim.removed_points)
               /\ Len(points') = call'.distance * live.height
               /\ \A y \in 0..(live.height - 1) :
                      Cardinality(InRow(points', y)) = call'.distance
               /\ \A i \in 1..(Len(points') - 1) : points'[i][1] >= points'[i + 1][1]
               /\ removed_points' = removed_points]_vars

RemoveAt(s, i) == SubSeq(s, 1, i - 1) \o SubSeq(s, i + 1, Len(s))

\* C10: remove_path of a seam on a grid of width W deletes the seam's pixel of
\* every row and nothing else: width W-1, every row keeps its other pixels in
\* order, the cells left of the seam's column unchanged.
C10_RemovePathDeletesSeamOnly ==
    [][pc = "remove_path" =>
           /\ grid'.width = grid.width - 1
           /\ grid'.height = grid.height
           /\ WellFormed(grid')
           /\ \A i \in 1..Len(path) :
                  LET x == path[i][1]
                      y == path[i][2]
                  IN  /\ Pixels(grid')[y + 1] = RemoveAt(Pixels(grid)[y + 1], x + 1)
                      /\ \A k \in 1..x : grid'.rows[y + 1][k] = grid.rows[y + 1][k]]_vars

C10_Witness ==
    /\ pc = "loop"
    /\ status = "ok"
    /\ Len(removed_points) = grid.height
    /\ grid.height >= 2
    /\ grid.width >= 2
    /\ \E i \in 1..Len(removed_points) : removed_points[i][1] >= 1
    /\ \E i \in 1..Len(removed_points) : removed_points[i][1] = 0

====
